---- MODULE Spec2Model ----
(***************************************************************************)
(* A model of the two batch jobs of tacheteo:                              *)
(*   00_fetch.py  the Collector  (class TACScraper, main)                  *)
(*   01_parse.py  the Transformer (class BibTeXConverter, main)            *)
(* The jobs share one file, tac.json (the Collection file).                *)
(*                                                                         *)
(* A path is a sequence of segments: the href "volumes/1/1/a-abs.html" is  *)
(* <<"volumes", "1", "1", "a-abs.html">>, and the absolute URL             *)
(* http://www.tac.mta.ca/tac/volumes/1/1/a-abs.html is its path,           *)
(* <<"tac", "volumes", "1", "1", "a-abs.html">>. The empty string is <<>>. *)
(* Python's None is <<>> for an optional integer and <<n>> is the integer. *)
(***************************************************************************)
EXTENDS Integers, Sequences, FiniteSets, TLC

VARIABLES
    file,            \* tac.json on disk: [kind, data]
    listing,         \* the anchors of the remote listing page
    pc,              \* where the Collector process is
    limit,           \* run(limit)
    existing_papers, \* self.existing_papers
    papers,          \* self.papers
    all_links,       \* extract_paper_links' result, before the limit
    paper_links,     \* paper_links after the limit
    idx,             \* how many entries of paper_links the loop has handled
    outcome,         \* per handled entry: "skipped", "ok" or "failed"
    main_response,   \* what get_page(self.base_url) returned in this run
    lastGet,         \* the latest get_page call of this run
    raised,          \* the exception that ended this run's work, or "none"
    wrote,           \* save_to_json wrote tac.json in this run
    fileBefore,      \* tac.json as it was when this run started
    prev,            \* what the previous run did
    tpc,             \* where the Transformer process is
    tlimit,          \* the Transformer's limit
    tpapers,         \* papers inside process_papers (after the limit)
    bibtex_entries,  \* process_papers' list
    calls,           \* the conversion calls made so far: [paper, api]
    traised,         \* the exception that escaped the Transformer, or "none"
    bib              \* tac.bib: [written, header, entries]

cvars == <<listing, pc, limit, existing_papers, papers, all_links, paper_links,
           idx, outcome, main_response, lastGet, raised, wrote, fileBefore, prev>>
tvars == <<tpc, tlimit, tpapers, bibtex_entries, calls, traised, bib>>
vars == <<file, cvars, tvars>>

----------------------------------------------------------------------------
(* Bounds of the model. *)

\* The largest limit tried on the command line.
MaxLimit == 2

----------------------------------------------------------------------------
(* Small helpers. *)

Range(s) == {s[i] : i \in 1..Len(s)}

Min(a, b) == IF a <= b THEN a ELSE b

Max(a, b) == IF a >= b THEN a ELSE b

\* All orders in which a finite set can be enumerated.
Perms(S) == {s \in [1..Cardinality(S) -> S] : \A x \in S : \E i \in DOMAIN s : s[i] = x}

None == <<>>

\* The limits main may pass to run: none, or --limit n (--dev is --limit 10,
\* which truncates no candidate list of this model).
Limits == {None} \cup {<<n>> : n \in 0..MaxLimit}

\* Python's truth value of an Optional[int]: None and 0 are false.
Truthy(l) == l # None /\ l[1] # 0

\* seq[:n] for an integer n (a negative n counts from the end).
PySlice(s, n) ==
    IF n >= 0 THEN SubSeq(s, 1, Min(n, Len(s)))
    ELSE SubSeq(s, 1, Max(Len(s) + n, 0))

----------------------------------------------------------------------------
(* The retrieval capability: TACScraper.get_page. *)

max_retries == 3

\* What each attempt of one get_page call meets: TRUE is a response that
\* passes raise_for_status, FALSE a requests.RequestException.
Patterns == [1..max_retries -> BOOLEAN]

\* time.sleep(2**attempt), with a wrong base-times-attempt schedule.
BackoffLinear(attempt) == 2 * attempt

\* time.sleep(2**attempt)
Backoff(attempt) == 2 ^ attempt

RECURSIVE GetPageGivingUpEarly(_, _, _)
\* get_page with the last attempt never made (attempt == max_retries - 2).
GetPageGivingUpEarly(attempt, pat, sleeps) ==
    IF attempt >= max_retries
    THEN [status |-> "None", attempts |-> attempt, sleeps |-> sleeps]
    ELSE IF pat[attempt + 1]
    THEN [status |-> "response", attempts |-> attempt + 1, sleeps |-> sleeps]
    ELSE IF attempt >= max_retries - 2
    THEN [status |-> "None", attempts |-> attempt + 1, sleeps |-> sleeps]
    ELSE GetPageGivingUpEarly(attempt + 1, pat, Append(sleeps, Backoff(attempt)))

RECURSIVE GetPageFrom(_, _, _)
\* The for loop of get_page from iteration `attempt` on; `sleeps` are the
\* time.sleep calls made so far.
GetPageFrom(attempt, pat, sleeps) ==
    IF attempt >= max_retries
    THEN [status |-> "None", attempts |-> attempt, sleeps |-> sleeps]
    ELSE IF pat[attempt + 1]
    THEN [status |-> "response", attempts |-> attempt + 1, sleeps |-> sleeps]
    ELSE IF attempt = max_retries - 1
    THEN [status |-> "None", attempts |-> attempt + 1, sleeps |-> sleeps]
    ELSE GetPageFrom(attempt + 1, pat, Append(sleeps, Backoff(attempt)))

\* One get_page call: its pattern and what it returned.
get_page(what, pat) ==
    LET r == GetPageFrom(0, pat, <<>>)
    IN  [called |-> TRUE, what |-> what, pattern |-> pat, status |-> r.status,
         attempts |-> r.attempts, sleeps |-> r.sleeps]

NoGet ==
    [called |-> FALSE, what |-> "none", pattern |-> [i \in 1..max_retries |-> FALSE],
     status |-> "None", attempts |-> 0, sleeps |-> <<>>]

----------------------------------------------------------------------------
(* Links and URLs. *)

\* Path segments made of digits only (\d+).
Digits == {"1", "2"}

\* Path segments that end with "abs.html".
AbsNames == {"a-abs.html", "b-abs.html"}

\* The directory of base_url, http://www.tac.mta.ca/tac/
base_url == <<"tac">>

RECURSIVE RemoveDotSegments(_, _)
\* urljoin's normalisation of the merged path: "." is dropped, ".." drops
\* the segment before it.
RemoveDotSegments(todo, done) ==
    IF todo = <<>> THEN done
    ELSE IF Head(todo) = "." THEN RemoveDotSegments(Tail(todo), done)
    ELSE IF Head(todo) = ".."
    THEN RemoveDotSegments(Tail(todo),
                           IF done = <<>> THEN done ELSE SubSeq(done, 1, Len(done) - 1))
    ELSE RemoveDotSegments(Tail(todo), Append(done, Head(todo)))

\* urljoin(self.base_url, link) for a relative link.
urljoin(base, link) == RemoveDotSegments(base \o link, <<>>)

\* The anchors a listing page may hold: two spellings of one page, another
\* page, and a link that is no abstract link.
AllAnchors ==
    { [href |-> <<"volumes", "1", "1", "a-abs.html">>, text |-> "abstract"],
      [href |-> <<"volumes", "1", "1", ".", "a-abs.html">>, text |-> "abstract"],
      [href |-> <<"volumes", "2", "1", "b-abs.html">>, text |-> "abstract"],
      [href |-> <<"volumes", "2", "1", "b.pdf">>, text |-> "pdf"] }

Listings == SUBSET AllAnchors

\* The hrefs extract_paper_links keeps, as a set (set(paper_links)).
MatchingHrefs(anchors) ==
    { a.href : a \in { b \in anchors :
                         /\ b.href # <<>>
                         /\ b.href[1] = "volumes"
                         /\ b.href[Len(b.href)] \in AbsNames
                         /\ b.text = "abstract" } }

\* list(set(paper_links)): every order the set may be enumerated in.
extract_paper_links(anchors) == Perms(MatchingHrefs(anchors))

\* re.search(r"volumes/(\d+)/(\d+)/([^/]+)", url): the places it matches at.
UrlMatches(url) ==
    { i \in 1..Len(url) :
        /\ i + 3 <= Len(url)
        /\ url[i] = "volumes"
        /\ url[i + 1] \in Digits
        /\ url[i + 2] \in Digits }

LeastOf(S) == CHOOSE i \in S : \A j \in S : i <= j

extract_paper_info(url) ==
    LET m == UrlMatches(url)
    IN  [url |-> url,
         volume_id |-> IF m = {} THEN "" ELSE url[LeastOf(m) + 1],
         paper_id |-> IF m = {} THEN "" ELSE url[LeastOf(m) + 2],
         raw_text |-> "text"]

----------------------------------------------------------------------------
(* tac.json. *)

\* kind "absent":     no file (FileNotFoundError)
\* kind "unparsable": not JSON (json.JSONDecodeError)
\* kind "object":     the JSON value {} (valid JSON, no list)
\* kind "scalars":    a JSON list with an element that is no object, as [1]
\* kind "records":    a JSON list of objects, in data
FileOf(kind, data) == [kind |-> kind, data |-> data]

UrlA == urljoin(base_url, <<"volumes", "1", "1", "a-abs.html">>)

UrlB == urljoin(base_url, <<"volumes", "2", "1", "b-abs.html">>)

UrlOld == urljoin(base_url, <<"volumes", "misc", "c-abs.html">>)

\* The element 1 of the JSON list [1]: it has no keys and no get.
ScalarElem == [json_number |-> 1]

\* An object that was written without its volume_id.
Partial == [url |-> UrlOld, paper_id |-> "1", raw_text |-> "text"]

\* paper.get("url", "")
GetUrl(paper) == IF "url" \in DOMAIN paper THEN paper.url ELSE <<>>

Urls(data) == {GetUrl(data[i]) : i \in 1..Len(data)}

Distinct(data) ==
    \A i, j \in 1..Len(data) : i # j => GetUrl(data[i]) # GetUrl(data[j])

\* The files a Collector run may find: the url values are pairwise distinct.
InitFiles ==
    { FileOf("absent", <<>>),
      FileOf("unparsable", <<>>),
      FileOf("object", <<>>),
      FileOf("scalars", <<ScalarElem>>),
      FileOf("records", <<extract_paper_info(UrlA)>>),
      FileOf("records", <<extract_paper_info(UrlOld)>>) }

\* load_existing_papers reading a key the Records do not have ("link"): every
\* paper.get("link", "") is the empty string.
load_existing_papers_wrong_key(f) ==
    CASE f.kind \in {"absent", "unparsable"} -> [raises |-> "none", urls |-> {}]
      [] f.kind = "object" -> [raises |-> "none", urls |-> {}]
      [] f.kind = "scalars" -> [raises |-> "AttributeError", urls |-> {}]
      [] OTHER -> [raises |-> "none", urls |-> {<<>> : i \in 1..Len(f.data)}]

\* load_existing_papers: the set of known URLs, or the exception it lets out.
load_existing_papers(f) ==
    CASE f.kind \in {"absent", "unparsable"} -> [raises |-> "none", urls |-> {}]
      [] f.kind = "object" -> [raises |-> "none", urls |-> {}]
      [] f.kind = "scalars" -> [raises |-> "AttributeError", urls |-> {}]
      [] OTHER -> [raises |-> "none", urls |-> Urls(f.data)]

\* is_paper_already_scraped
is_paper_already_scraped(url) == url \in existing_papers

\* save_to_json: the file it leaves and the exception it lets out.
save_to_json(f, new) ==
    CASE f.kind \in {"absent", "unparsable"} ->
            [raises |-> "none", wrote |-> TRUE, file |-> FileOf("records", new)]
      [] f.kind = "object" ->
            [raises |-> "TypeError", wrote |-> FALSE, file |-> f]
      [] f.kind = "scalars" ->
            [raises |-> "none", wrote |-> TRUE, file |-> FileOf("scalars", f.data \o new)]
      [] OTHER ->
            [raises |-> "none", wrote |-> TRUE, file |-> FileOf("records", f.data \o new)]

----------------------------------------------------------------------------
(* The Collector: main, TACScraper.__init__, run, scrape_all_papers. *)

NoPrev == [ran |-> FALSE, main_ok |-> FALSE, no_failure |-> FALSE,
           limit |-> None, kept |-> {}]

CollectorIdle ==
    /\ pc = "idle"
    /\ limit = None
    /\ existing_papers = {}
    /\ papers = <<>>
    /\ all_links = <<>>
    /\ paper_links = <<>>
    /\ idx = 0
    /\ outcome = <<>>
    /\ main_response = "unset"
    /\ lastGet = NoGet
    /\ raised = "none"
    /\ wrote = FALSE
    /\ fileBefore = file
    /\ prev = NoPrev

TransformerIdle ==
    /\ tpc = "idle"
    /\ tlimit = None
    /\ tpapers = <<>>
    /\ bibtex_entries = <<>>
    /\ calls = <<>>
    /\ traised = "none"
    /\ bib = [written |-> FALSE, header |-> <<>>, entries |-> <<>>]

Init ==
    /\ file \in InitFiles
    /\ listing \in Listings
    /\ CollectorIdle
    /\ TransformerIdle

\* main and TACScraper(): the process starts with --limit l (or none) and the
\* constructor loads tac.json; an exception of the constructor ends the process.
Start(l) ==
    /\ pc = "idle"
    /\ LET loaded == load_existing_papers(file)
       IN  /\ existing_papers' = loaded.urls
           /\ raised' = loaded.raises
           /\ pc' = IF loaded.raises = "none" THEN "main" ELSE "crashed"
    /\ limit' = l
    /\ fileBefore' = file
    /\ UNCHANGED <<file, listing, papers, all_links, paper_links, idx, outcome,
                   main_response, lastGet, wrote, prev, tvars>>

\* scrape_all_papers up to its loop: the listing page, the links, the limit.
FetchMain ==
    /\ pc = "main"
    /\ \E pat \in Patterns :
         LET g == get_page("main", pat)
         IN  /\ lastGet' = g
             /\ main_response' = g.status
             /\ IF g.status = "None"
                THEN /\ pc' = "save"
                     /\ UNCHANGED <<all_links, paper_links>>
                ELSE \E found \in extract_paper_links(listing) :
                       /\ all_links' = found
                       /\ paper_links' = IF Truthy(limit)
                                         THEN PySlice(found, limit[1])
                                         ELSE found
                       /\ pc' = IF paper_links' = <<>> THEN "save" ELSE "scrape"
    /\ UNCHANGED <<file, listing, limit, existing_papers, papers, idx, outcome,
                   raised, wrote, fileBefore, prev, tvars>>

\* One iteration of the loop over paper_links.
ScrapeOne ==
    /\ pc = "scrape"
    /\ idx < Len(paper_links)
    /\ LET full_url == urljoin(base_url, paper_links[idx + 1])
       IN  IF is_paper_already_scraped(full_url)
           THEN /\ outcome' = Append(outcome, "skipped")
                /\ UNCHANGED <<papers, lastGet>>
           ELSE \E pat \in Patterns :
                  LET g == get_page("paper", pat)
                  IN  /\ lastGet' = g
                      /\ IF g.status = "response"
                         THEN /\ papers' = Append(papers, extract_paper_info(full_url))
                              /\ outcome' = Append(outcome, "ok")
                         ELSE /\ outcome' = Append(outcome, "failed")
                              /\ UNCHANGED papers
    /\ idx' = idx + 1
    /\ pc' = IF idx + 1 = Len(paper_links) THEN "save" ELSE "scrape"
    /\ UNCHANGED <<file, listing, limit, existing_papers, all_links, paper_links,
                   main_response, raised, wrote, fileBefore, prev, tvars>>

\* run's call of save_to_json; run's except clause catches what it raises.
Save ==
    /\ pc = "save"
    /\ LET r == save_to_json(file, papers)
       IN  /\ file' = r.file
           /\ wrote' = r.wrote
           /\ raised' = r.raises
    /\ pc' = "done"
    /\ UNCHANGED <<listing, limit, existing_papers, papers, all_links, paper_links,
                   idx, outcome, main_response, lastGet, fileBefore, prev, tvars>>

\* The process ends; the next invocation starts from a new TACScraper.
Exit ==
    /\ pc \in {"done", "crashed"}
    /\ prev' = [ran |-> TRUE,
                main_ok |-> main_response = "response",
                no_failure |-> \A i \in 1..Len(outcome) : outcome[i] # "failed",
                limit |-> limit,
                kept |-> Range(paper_links)]
    /\ pc' = "idle"
    /\ limit' = None
    /\ existing_papers' = {}
    /\ papers' = <<>>
    /\ all_links' = <<>>
    /\ paper_links' = <<>>
    /\ idx' = 0
    /\ outcome' = <<>>
    /\ main_response' = "unset"
    /\ lastGet' = NoGet
    /\ raised' = "none"
    /\ wrote' = FALSE
    /\ fileBefore' = file
    /\ UNCHANGED <<file, listing, tvars>>

Next ==
    \/ \E l \in Limits : Start(l)
    \/ FetchMain
    \/ ScrapeOne
    \/ Save
    \/ Exit

Spec == Init /\ [][Next]_vars

----------------------------------------------------------------------------
(* The Transformer: main, BibTeXConverter.process_papers, convert_to_bibtex, *)
(* save_bibtex.                                                             *)

\* What the text-generation call does: it returns a completion, it raises,
\* or its response holds no text (content is None, or choices is empty).
ApiOutcomes == {"completion", "error", "no_content"}

\* paper_data[key]: a KeyError for an object without the key, a TypeError for
\* an element that is no object.
Subscript(paper, key) ==
    IF paper = ScalarElem THEN "TypeError"
    ELSE IF key \in DOMAIN paper THEN "none"
    ELSE "KeyError"

RECURSIVE FirstError(_, _)
\* The first exception of subscripting paper by keys, in order.
FirstError(paper, keys) ==
    IF keys = <<>> THEN "none"
    ELSE IF Subscript(paper, Head(keys)) # "none" THEN Subscript(paper, Head(keys))
    ELSE FirstError(paper, Tail(keys))

\* The fields create_bibtex_prompt embeds; raw_text[:2000] of a short text is
\* the text.
create_bibtex_prompt(paper) ==
    [url |-> paper.url, volume_id |-> paper.volume_id, paper_id |-> paper.paper_id,
     content |-> paper.raw_text]

\* The text the API returned for a prompt, stripped.
Completion(paper) == [kind |-> "completion", prompt |-> create_bibtex_prompt(paper)]

\* The except clause's templated entry.
Fallback(paper) ==
    [kind |-> "fallback",
     key |-> <<paper.volume_id, paper.paper_id>>,
     title |-> <<"Paper from TAC Volume", paper.volume_id, "Number", paper.paper_id>>,
     journal |-> "Theory and Applications of Categories",
     volume |-> paper.volume_id,
     number |-> paper.paper_id,
     year |-> "[n.d.]",
     url |-> paper.url]

\* convert_to_bibtex: the entry it returns, or the exception it lets out.
convert_to_bibtex(paper, api) ==
    LET inTry == FirstError(paper, <<"url", "volume_id", "paper_id", "raw_text",
                                     "volume_id", "paper_id">>)
        inExcept == FirstError(paper, <<"volume_id", "paper_id", "volume_id",
                                        "paper_id", "volume_id", "paper_id", "url">>)
    IN  IF inTry = "none" /\ api = "completion"
        THEN [raises |-> "none", entry |-> Completion(paper)]
        ELSE IF inExcept = "none"
        THEN [raises |-> "none", entry |-> Fallback(paper)]
        ELSE [raises |-> inExcept, entry |-> <<>>]

\* The two comment lines save_bibtex writes first.
Header == <<"% TAC Papers converted to BibLaTeX format",
            "% Generated automatically from web scraping data">>

\* An object without raw_text: the prompt cannot be built, the fallback can.
NoText == [url |-> UrlB, volume_id |-> "2", paper_id |-> "1"]

\* The files a Transformer run may find.
TransformerFiles ==
    { FileOf("absent", <<>>),
      FileOf("unparsable", <<>>),
      FileOf("object", <<>>),
      FileOf("scalars", <<ScalarElem>>),
      FileOf("records", <<>>),
      FileOf("records", <<extract_paper_info(UrlA)>>),
      FileOf("records", <<extract_paper_info(UrlA), extract_paper_info(UrlB)>>),
      FileOf("records", <<extract_paper_info(UrlB), extract_paper_info(UrlOld),
                          extract_paper_info(UrlA)>>),
      FileOf("records", <<NoText, extract_paper_info(UrlA)>>),
      FileOf("records", <<extract_paper_info(UrlA), Partial, extract_paper_info(UrlB)>>) }

TInit ==
    /\ file \in TransformerFiles
    /\ listing = {}
    /\ CollectorIdle
    /\ TransformerIdle

\* main up to the loop of process_papers: the API key, the input file, the limit.
TStart(l, has_key) ==
    /\ tpc = "idle"
    /\ tlimit' = l
    /\ IF ~has_key \/ file.kind \in {"absent", "unparsable"}
       THEN /\ tpc' = "ended"
            /\ UNCHANGED <<tpapers, traised>>
       ELSE IF file.kind = "object" /\ Truthy(l)
       THEN \* {}[:limit]
            /\ tpc' = "crashed"
            /\ traised' = "TypeError"
            /\ UNCHANGED tpapers
       ELSE /\ tpapers' = IF Truthy(l) THEN PySlice(file.data, l[1]) ELSE file.data
            /\ tpc' = IF tpapers' = <<>> THEN "save" ELSE "convert"
            /\ UNCHANGED traised
    /\ UNCHANGED <<file, cvars, bibtex_entries, calls, bib>>

\* One iteration of the loop of process_papers.
TConvert ==
    /\ tpc = "convert"
    /\ \E api \in ApiOutcomes :
         LET paper == tpapers[Len(bibtex_entries) + 1]
             r == convert_to_bibtex(paper, api)
         IN  /\ calls' = Append(calls, [paper |-> paper, api |-> api])
             /\ traised' = r.raises
             /\ IF r.raises = "none"
                THEN /\ bibtex_entries' = Append(bibtex_entries, r.entry)
                     /\ tpc' = IF Len(bibtex_entries) + 1 = Len(tpapers)
                               THEN "save" ELSE "convert"
                ELSE /\ tpc' = "crashed"
                     /\ UNCHANGED bibtex_entries
    /\ UNCHANGED <<file, cvars, tlimit, tpapers, bib>>

\* save_bibtex
TSave ==
    /\ tpc = "save"
    /\ bib' = [written |-> TRUE, header |-> Header, entries |-> bibtex_entries]
    /\ tpc' = "done"
    /\ UNCHANGED <<file, cvars, tlimit, tpapers, bibtex_entries, calls, traised>>

TNext ==
    \/ \E l \in Limits, has_key \in BOOLEAN : TStart(l, has_key)
    \/ TConvert
    \/ TSave

\* One invocation of the Transformer on a given tac.json.
SpecT == TInit /\ [][TNext]_vars

----------------------------------------------------------------------------
(* The claims about the Collector, checked under Spec. *)

\* The absolute URL of the i-th candidate of this run.
FullUrl(i) == urljoin(base_url, paper_links[i])

\* The known set as the claims define it: the url values of tac.json as the
\* run found it (empty for an absent or malformed file).
KnownAtStart ==
    IF fileBefore.kind = "records" THEN Urls(fileBefore.data) ELSE {}

\* The Records tac.json held when the run started.
HeldAtStart == IF fileBefore.kind = "records" THEN fileBefore.data ELSE <<>>

RECURSIVE NewRecords(_)
\* One Record per candidate among the first n whose fetch succeeded, in
\* candidate order.
NewRecords(n) ==
    IF n = 0 THEN <<>>
    ELSE IF outcome[n] = "ok"
    THEN Append(NewRecords(n - 1), extract_paper_info(FullUrl(n)))
    ELSE NewRecords(n - 1)

Fetched == {i \in 1..Len(outcome) : outcome[i] # "skipped"}

\* C1: from an absent file or one with pairwise distinct url values, after
\* any number of runs, any listing (hrefs that resolve to one URL included),
\* any limit and any fetch outcomes, the url values of the Records in
\* tac.json are pairwise distinct.
C1_UrlsPairwiseDistinct ==
    file.kind = "records" => Distinct(file.data)

\* C2, as claimed: for a fixed listing and the same limit, the file after a
\* second run is the file after the first (both runs having got the listing),
\* whatever the detail fetches of either run did and in whatever order each
\* run enumerated the candidates.
C2_IdempotentAlways ==
    (pc = "done" /\ prev.ran /\ prev.limit = limit /\ prev.main_ok)
    => file = fileBefore

\* C2, amended: for a fixed listing and the same limit, the file after a
\* second run is the file after the first provided the first run fetched the
\* listing and every detail page it tried, and every candidate the second run
\* keeps after the limit was kept by the first run too (so for every order of
\* either run when the limit does not truncate the list).
C2_IdempotentAfterCleanRun ==
    ( /\ pc = "done"
      /\ prev.ran
      /\ prev.limit = limit
      /\ prev.main_ok
      /\ prev.no_failure
      /\ Range(paper_links) \subseteq prev.kept )
    => file = fileBefore

\* C2's case: a second run that got the listing, found two or more candidates
\* and skipped them all after a clean first run.
C2_Witness ==
    /\ pc = "done"
    /\ prev.ran /\ prev.limit = limit /\ prev.main_ok /\ prev.no_failure
    /\ main_response = "response"
    /\ Len(paper_links) >= 2
    /\ Range(paper_links) \subseteq prev.kept
    /\ \A i \in 1..Len(outcome) : outcome[i] = "skipped"
    /\ wrote

\* C3: when the fetch of the listing page fails, the run fetches no detail
\* page, writes nothing, and tac.json is what it was: absent stays absent,
\* and the content, valid or malformed, is the same.
C3_ListingFailureLeavesFile ==
    (pc = "done" /\ main_response = "None")
    => (file = fileBefore /\ ~wrote /\ outcome = <<>>)

\* C4: after a run that got the listing (from an absent file, or one holding
\* text or Records), tac.json is the Records it held before, in order,
\* followed by one new Record per candidate (within the limit, in order)
\* whose URL was not known at start and whose fetch succeeded; a known
\* candidate is never fetched; a candidate whose fetch failed is not in the
\* known set of the next run.
C4_AppendOnly ==
    ( /\ pc = "done"
      /\ main_response = "response"
      /\ fileBefore.kind \in {"absent", "unparsable", "records"} )
    => /\ Len(outcome) = Len(paper_links)
       /\ file = FileOf("records", HeldAtStart \o NewRecords(Len(outcome)))
       /\ \A i \in 1..Len(outcome) :
            (outcome[i] = "skipped") <=> (FullUrl(i) \in KnownAtStart)
       /\ \A i \in 1..Len(outcome) :
            outcome[i] = "failed" => FullUrl(i) \notin Urls(file.data)

HasSuccess(pat) == \E k \in DOMAIN pat : pat[k]

FirstSuccess(pat) == LeastOf({k \in DOMAIN pat : pat[k]})

\* C5: get_page makes at most 3 attempts, none after the first success, whose
\* response it returns (fail, fail, succeed: a response after 3 attempts);
\* when all 3 fail it returns None and raises nothing; a detail page that
\* failed is skipped and the loop goes on to the next candidate, so every
\* candidate is handled by the time the run saves.
C5_BoundedRetry ==
    /\ lastGet.called =>
         /\ lastGet.attempts <= 3
         /\ HasSuccess(lastGet.pattern) =>
              /\ lastGet.status = "response"
              /\ lastGet.attempts = FirstSuccess(lastGet.pattern)
         /\ ~HasSuccess(lastGet.pattern) =>
              /\ lastGet.status = "None"
              /\ lastGet.attempts = 3
    /\ (\E i \in 1..Len(outcome) : outcome[i] = "failed") =>
         /\ pc \in {"scrape", "save", "done"}
         /\ raised = "none" \/ (raised = "TypeError" /\ pc = "done")
         /\ pc = "scrape" => idx < Len(paper_links)
         /\ pc \in {"save", "done"} => Len(outcome) = Len(paper_links)
         /\ Len(papers) = Cardinality({i \in 1..Len(outcome) : outcome[i] = "ok"})

\* C5's case: a detail fetch failed on all attempts, and a later candidate
\* was fetched on the third attempt after two failures.
C5_Witness ==
    /\ \E i, j \in 1..Len(outcome) : i < j /\ outcome[i] = "failed" /\ outcome[j] = "ok"
    /\ lastGet.what = "paper"
    /\ lastGet.pattern = <<FALSE, FALSE, TRUE>>
    /\ lastGet.status = "response"
    /\ lastGet.attempts = 3

\* C6: with a limit L >= 0 given and N candidates, the list is cut to its
\* first min(L, N) entries before the known ones are skipped: the detail
\* pages fetched are the not-yet-known candidates among those, never more
\* than L.
C6_LimitBoundsFetches ==
    (pc = "done" /\ main_response = "response" /\ limit # None)
    => LET L == limit[1]
           N == Len(all_links)
       IN  /\ paper_links = SubSeq(all_links, 1, Min(L, N))
           /\ Cardinality(Fetched) =
                Cardinality({i \in 1..Min(L, N) :
                               urljoin(base_url, all_links[i]) \notin KnownAtStart})
           /\ Cardinality(Fetched) <= L

\* C9: an absent or malformed tac.json is the empty sequence and no error:
\* the constructor raises nothing and knows no URL, every candidate is
\* fetched as new, and save_to_json writes exactly the new Records.
C9_PermissiveLoad ==
    (pc # "idle" /\ fileBefore.kind \in {"absent", "unparsable", "object", "scalars"})
    => /\ pc # "crashed"
       /\ existing_papers = {}
       /\ (pc = "done" /\ main_response = "response") =>
            /\ \A i \in 1..Len(outcome) : outcome[i] # "skipped"
            /\ Len(outcome) = Len(paper_links)
            /\ raised = "none"
            /\ file = FileOf("records", papers)

\* The attempts of the latest get_page call that failed, counted from 0.
FailedAttempts ==
    {k \in 0..(lastGet.attempts - 1) : ~lastGet.pattern[k + 1]}

\* C10, as claimed: the wait after the k-th failed attempt, k from 0, is 2^k
\* seconds: 1s, 2s, 4s for the 3 attempts.
C10_WaitAfterEveryFailure ==
    lastGet.called =>
      \A k \in FailedAttempts :
        Len(lastGet.sleeps) >= k + 1 /\ lastGet.sleeps[k + 1] = 2 ^ k

\* C10, amended: the wait after the k-th failed attempt is 2^k seconds for
\* k = 0 and k = 1 only (1s, 2s); after the third failed attempt get_page
\* returns None without waiting, so 4s is never waited.
C10_WaitBetweenAttempts ==
    lastGet.called =>
      /\ lastGet.sleeps = SubSeq(<<1, 2>>, 1, Min(Cardinality(FailedAttempts), 2))
      /\ \A k \in FailedAttempts : k < 2 => lastGet.sleeps[k + 1] = 2 ^ k

\* C10's case: all three attempts failed, with two waits between them.
C10_Witness ==
    /\ lastGet.called
    /\ lastGet.pattern = <<FALSE, FALSE, FALSE>>
    /\ lastGet.attempts = 3
    /\ lastGet.sleeps = <<1, 2>>

----------------------------------------------------------------------------
(* The claims about the Transformer, checked under SpecT. *)

Complete(paper) == DOMAIN paper = {"url", "volume_id", "paper_id", "raw_text"}

\* C7: whatever element of tac.json is converted and however the conversion
\* fails, convert_to_bibtex returns the fallback entry of that element, no
\* exception escapes to process_papers, the later elements are processed and
\* tac.bib is written.
C7_NeverAborts ==
    file.kind = "records" =>
      /\ tpc # "crashed"
      /\ traised = "none"
      /\ \A i \in 1..Len(bibtex_entries) :
           calls[i].api # "completion" => bibtex_entries[i] = Fallback(calls[i].paper)
      /\ tpc = "done" => (bib.written /\ Len(bibtex_entries) = Len(tpapers))

\* C8: for N Records and an optional limit L, process_papers converts each
\* processed Record once, in input order, and returns min(L, N) entries (N
\* without a limit), the i-th made from the i-th Record; save_bibtex writes
\* them in that order after the header.
C8_OutputShape ==
    ( /\ tpc = "done"
      /\ file.kind = "records"
      /\ \A i \in 1..Len(file.data) : Complete(file.data[i]) )
    => LET N == Len(file.data)
           K == IF tlimit = None THEN N ELSE Min(tlimit[1], N)
       IN  /\ Len(calls) = K
           /\ Len(bibtex_entries) = K
           /\ \A i \in 1..K :
                /\ calls[i].paper = file.data[i]
                /\ bibtex_entries[i] = IF calls[i].api = "completion"
                                       THEN Completion(file.data[i])
                                       ELSE Fallback(file.data[i])
           /\ bib = [written |-> TRUE, header |-> Header, entries |-> bibtex_entries]

====
